---- MODULE Spec2Model ----
(***************************************************************************)
(* CPU scheduling simulators of gilmour59/cpu_sched.                       *)
(*                                                                         *)
(* Tick mode: the generator functions of interactive.py / interaction.py   *)
(* (fcfs_scheduler, srtf_scheduler, round_robin_scheduler,                  *)
(* lottery_scheduler, edf_scheduler).  One step of the model runs a        *)
(* generator from one yield to the next, so every state with pc = "yield"  *)
(* or pc = "final" is one trace entry.                                     *)
(*                                                                         *)
(* Event-jump mode: the schedule() methods of main.py (FCFSScheduler,      *)
(* SJFScheduler, RoundRobinScheduler).  One step of the model is one       *)
(* iteration of the method's loop.  It is run on fresh Process objects of  *)
(* the same workload once the tick-mode run (if the policy has one) is     *)
(* over.                                                                   *)
(*                                                                         *)
(* A process is identified by its pid; None is modelled as pid 0.          *)
(***************************************************************************)
EXTENDS Integers, Sequences, FiniteSets, TLC

\* ---- bounds of the model ----
NumProcs == 3
MaxArrival == 2
MaxBurst == 3
MaxQuantum == 2
MaxTickets == 2
MaxDeadline == 1
MaxRawProcs == 2

\* ---- program constants ----
DefaultTickets == 10
DefaultDeadline == 0
NotStarted == -1

None == 0

TickPolicies == {"FCFS", "SRTF", "RR", "Lottery", "EDF"}
JumpPolicies == {"FCFS", "SJF", "RR"}
Policies == TickPolicies \cup JumpPolicies

VARIABLES
  policy,            \* the scheduler chosen
  time_quantum,      \* Round Robin's time_quantum (0 when not Round Robin)
  processes,         \* the workload, in input order
  pc,                \* the generator: start, yield, final, stopped, raised,
                     \* absent
  current_time,
  pending,           \* process_queue / remaining_procs / procs_to_arrive
  ready_queue,
  running_process,
  completed,
  quantum_slice,
  obj,               \* mutable fields of the tick-mode Process objects
  busy,              \* per pid: trace entries emitted with it running
  dispatch_rem,      \* remaining_burst_time of the running process at dispatch
  slices,            \* Round Robin: finished execution slices (both drivers)
  history,           \* VisualSimulator.history: the Gantt labels
  trace,             \* the running process of every entry yielded so far
  draw,              \* Lottery: the draw made on the way to this trace entry
  entries,           \* the tuples yielded so far, as their consumer holds them
  m_pc,              \* schedule(): idle, loop, returned, absent
  m_current_time,
  m_processes,       \* processes after the sort / remaining_processes (SJF)
  m_process_idx,
  m_ready_queue,
  m_completed_processes,
  gantt_chart,
  m_obj,             \* mutable fields of the main.py Process objects
  m_result           \* the list schedule() returns

tickVars == <<pc, current_time, pending, ready_queue, running_process,
              completed, quantum_slice, obj, busy, dispatch_rem, history,
              trace, draw, entries>>
jumpVars_but_obj == <<m_pc, m_current_time, m_processes, m_process_idx,
                      m_ready_queue, m_completed_processes, gantt_chart,
                      m_result>>
jumpVars == <<jumpVars_but_obj, m_obj>>
workloadVars == <<policy, time_quantum, processes>>
vars == <<workloadVars, tickVars, slices, jumpVars>>

\* ---- sequences ----
Range(s) == {s[i] : i \in 1..Len(s)}
Count(s, x) == Cardinality({i \in 1..Len(s) : s[i] = x})
Min2(a, b) == IF a <= b THEN a ELSE b
RemoveAt(s, i) == SubSeq(s, 1, i - 1) \o SubSeq(s, i + 1, Len(s))

\* ---- the workload ----
Pids == {processes[i].pid : i \in 1..Len(processes)}
P(p) == processes[CHOOSE i \in 1..Len(processes) : processes[i].pid = p]
InputOrder == [i \in 1..Len(processes) |-> processes[i].pid]
ArrivalKey == [p \in Pids |-> P(p).arrival_time]
BurstKey == [p \in Pids |-> P(p).burst_time]
DeadlineKey == [p \in Pids |-> P(p).deadline]
RemainingKey(o) == [p \in Pids |-> o[p].remaining_burst_time]

\* list.sort(key=...) / sorted(..., key=...): ascending by key, and stable:
\* elements with equal keys keep their relative order.  Rank is the place
\* the i-th element of s takes in the sorted list.
Rank(s, k, i) ==
  1 + Cardinality({j \in 1..Len(s) :
                     \/ k[s[j]] < k[s[i]]
                     \/ k[s[j]] = k[s[i]] /\ j < i})

StableSort(s, k) ==
  [r \in 1..Len(s) |-> s[CHOOSE i \in 1..Len(s) : Rank(s, k, i) = r]]

\* a workload that is walked in input order, never sorted
SortedByArrival_Unsorted == InputOrder

SortedByArrival == StableSort(InputOrder, ArrivalKey)

\* an admission test that misses the processes arriving right now
ArrivedCount_Strict(pend, t) ==
  Cardinality({i \in 1..Len(pend) :
                 \A j \in 1..i : P(pend[j]).arrival_time < t})

\* while pend and pend[0].arrival_time <= t: ready.append(pend.pop(0))
ArrivedCount(pend, t) ==
  Cardinality({i \in 1..Len(pend) :
                 \A j \in 1..i : P(pend[j]).arrival_time <= t})

\* an admission that puts the arrivals at the head of the queue
Admit_AheadOfQueue(pend, ready, t) ==
  LET k == ArrivedCount(pend, t)
  IN [pending |-> SubSeq(pend, k + 1, Len(pend)),
      ready |-> SubSeq(pend, 1, k) \o ready]

Admit(pend, ready, t) ==
  LET k == ArrivedCount(pend, t)
  IN [pending |-> SubSeq(pend, k + 1, Len(pend)),
      ready |-> ready \o SubSeq(pend, 1, k)]

\* if running_process: remaining_burst_time -= 1; if it is 0: completed.append
Decrement(o, p) ==
  [o EXCEPT ![p].remaining_burst_time = o[p].remaining_burst_time - 1]

\* a completion test that fires one tick early
Executed_CompletesEarly ==
  IF running_process = None
  THEN [obj |-> obj, completed |-> completed, running |-> None,
        ready |-> ready_queue, quantum_slice |-> quantum_slice,
        time |-> current_time + 1]
  ELSE LET o == Decrement(obj, running_process)
       IN IF o[running_process].remaining_burst_time <= 1
          THEN [obj |-> o, completed |-> Append(completed, running_process),
                running |-> None, ready |-> ready_queue,
                quantum_slice |-> quantum_slice, time |-> current_time + 1]
          ELSE [obj |-> o, completed |-> completed,
                running |-> running_process, ready |-> ready_queue,
                quantum_slice |-> quantum_slice, time |-> current_time + 1]

\* the lines after the yield: the running process executes one tick
Executed ==
  IF running_process = None
  THEN [obj |-> obj, completed |-> completed, running |-> None,
        ready |-> ready_queue, quantum_slice |-> quantum_slice,
        time |-> current_time + 1]
  ELSE LET o == Decrement(obj, running_process)
       IN IF o[running_process].remaining_burst_time = 0
          THEN [obj |-> o, completed |-> Append(completed, running_process),
                running |-> None, ready |-> ready_queue,
                quantum_slice |-> quantum_slice, time |-> current_time + 1]
          ELSE [obj |-> o, completed |-> completed,
                running |-> running_process, ready |-> ready_queue,
                quantum_slice |-> quantum_slice, time |-> current_time + 1]

\* The locals of a generator when its body starts.
Started ==
  [obj |-> obj, completed |-> <<>>, running |-> None, ready |-> <<>>,
   quantum_slice |-> 0, time |-> 0]

\* ---- the policies' dispatch decisions ----
\* a dispatch that takes the newest ready process
FcfsSelect_Newest(run, ready) ==
  IF run = None /\ ready # <<>>
  THEN [running |-> ready[Len(ready)],
        ready |-> SubSeq(ready, 1, Len(ready) - 1)]
  ELSE [running |-> run, ready |-> ready]

\* a dispatch that swaps the running process with the head of the queue
FcfsSelect_Preemptive(run, ready) ==
  IF ready = <<>>
  THEN [running |-> run, ready |-> ready]
  ELSE IF run = None
  THEN [running |-> Head(ready), ready |-> Tail(ready)]
  ELSE [running |-> Head(ready), ready |-> Append(Tail(ready), run)]

\* if not running_process and ready_queue: running_process = ready_queue.pop(0)
FcfsSelect(run, ready) ==
  IF run = None /\ ready # <<>>
  THEN [running |-> Head(ready), ready |-> Tail(ready)]
  ELSE [running |-> run, ready |-> ready]

\* a preemption test that also fires on equal keys
Preempts_OnEqual(best, run, k) == k[best] <= k[run]

\* a preemption test that never fires
Preempts_Never(best, run, k) == FALSE

\* the preemption test of srtf_scheduler and edf_scheduler
Preempts(best, run, k) == k[best] < k[run]

\* a preemption that forgets to take the promoted process off the queue
KeySelect_NoPop(run, ready, k) ==
  IF ready = <<>>
  THEN [running |-> run, ready |-> ready]
  ELSE LET sorted == StableSort(ready, k)
       IN IF run # None /\ Preempts(sorted[1], run, k)
          THEN [running |-> sorted[1], ready |-> Append(sorted, run)]
          ELSE IF run = None
          THEN [running |-> sorted[1], ready |-> Tail(sorted)]
          ELSE [running |-> run, ready |-> sorted]

\* a selection that never preempts
KeySelect_NoPreempt(run, ready, k) ==
  IF ready = <<>>
  THEN [running |-> run, ready |-> ready]
  ELSE LET sorted == StableSort(ready, k)
       IN IF run = None
          THEN [running |-> sorted[1], ready |-> Tail(sorted)]
          ELSE [running |-> run, ready |-> sorted]

\* if ready_queue: sort by key; preempt or fill the empty CPU
KeySelect(run, ready, k) ==
  IF ready = <<>>
  THEN [running |-> run, ready |-> ready]
  ELSE LET sorted == StableSort(ready, k)
       IN IF run # None /\ Preempts(sorted[1], run, k)
          THEN [running |-> sorted[1], ready |-> Tail(Append(sorted, run))]
          ELSE IF run = None
          THEN [running |-> sorted[1], ready |-> Tail(sorted)]
          ELSE [running |-> run, ready |-> sorted]

SrtfSelect(run, ready, o) == KeySelect(run, ready, RemainingKey(o))
EdfSelect(run, ready) == KeySelect(run, ready, DeadlineKey)

\* ---- yields ----
\* cpu_state = f"[  {running}  ]" if running else "[ IDLE ]"
CpuState(run) == IF run # None THEN <<"P", run>> ELSE <<"IDLE", None>>

\* a draw_state that records every entry
draw_state_EveryEntry(run) == Append(history, CpuState(run))

\* VisualSimulator.draw_state, called by run() on every yielded entry:
\* if not self.history or self.history[-1] != cpu_state: append
draw_state(run) ==
  IF history = <<>> \/ history[Len(history)] # CpuState(run)
  THEN Append(history, CpuState(run))
  ELSE history

\* progress = (p.burst_time - p.remaining_burst_time) / p.burst_time raises
\* ZeroDivisionError in draw_state, before the history is touched; run()
\* does not catch it.
DrawRaises == \E i \in 1..Len(processes) : processes[i].burst_time = 0

\* no lottery draw was made on the way to the entry
NoDraw == [queue |-> <<>>, winning_ticket |-> 0]

\* The lists of a yielded tuple.  completed is the generator's own list, and
\* so is ready_queue unless the generator yields list(ready_queue) or [];
\* own_ready tells which.  ready and completed are the lists' contents at
\* the yield.
Entry(ready, done, own) ==
  [ready |-> ready, completed |-> done, own_ready |-> own]

\* what the lists of a yielded tuple hold now
Snapshot(e) ==
  [ready |-> IF e.own_ready THEN ready_queue ELSE e.ready,
   completed |-> completed]

Yield(ex, pend, run, ready, qs, drem, sl, dr) ==
  /\ pc' = (IF DrawRaises THEN "raised" ELSE "yield")
  /\ current_time' = ex.time
  /\ pending' = pend
  /\ ready_queue' = ready
  /\ running_process' = run
  /\ completed' = ex.completed
  /\ quantum_slice' = qs
  /\ obj' = ex.obj
  /\ busy' = IF run = None THEN busy ELSE [busy EXCEPT ![run] = @ + 1]
  /\ dispatch_rem' = drem
  /\ slices' = sl
  /\ history' = (IF DrawRaises THEN history ELSE draw_state(run))
  /\ trace' = Append(trace, run)
  /\ draw' = dr
  /\ entries' = Append(entries, Entry(ready, ex.completed, policy # "RR"))
  /\ UNCHANGED <<workloadVars, jumpVars>>

\* yield current_time, None, [], completed   (after the loop)
FinalYield(ex, sl) ==
  /\ pc' = (IF DrawRaises THEN "raised" ELSE "final")
  /\ current_time' = ex.time
  /\ ready_queue' = ex.ready
  /\ running_process' = ex.running
  /\ completed' = ex.completed
  /\ quantum_slice' = ex.quantum_slice
  /\ obj' = ex.obj
  /\ slices' = sl
  /\ history' = (IF DrawRaises THEN history ELSE draw_state(None))
  /\ trace' = Append(trace, None)
  /\ draw' = NoDraw
  /\ entries' = Append(entries, Entry(<<>>, ex.completed, FALSE))
  /\ UNCHANGED <<pending, busy, dispatch_rem, workloadVars, jumpVars>>

\* No run of a workload with positive bursts lasts longer than its last
\* arrival plus its total burst time; Horizon is at least that long.  A run
\* that would go on past it, or a schedule() that would log more entries
\* than that many slices and one idle period per process, is cut there.
MaxOf(S) == CHOOSE m \in S : \A x \in S : x <= m
Horizon ==
  MaxOf({0} \cup {processes[i].arrival_time : i \in 1..Len(processes)})
  + Len(processes)
    * MaxOf({1} \cup {processes[i].burst_time : i \in 1..Len(processes)})

\* next() on the generator: it has not finished
Resumable ==
  /\ pc \in {"start", "yield"}
  /\ current_time <= Horizon
Body == IF pc = "start" THEN Started ELSE Executed
PendingNow == IF pc = "start" THEN SortedByArrival ELSE pending
\* a loop test that stops one completion short
LoopContinues_StopsEarly(ex) == Len(ex.completed) + 1 < Len(processes)

\* while len(completed) < len(processes)
LoopContinues(ex) == Len(ex.completed) < Len(processes)

fcfs_scheduler ==
  /\ policy = "FCFS"
  /\ Resumable
  /\ \E ex \in {Body}, pend \in {PendingNow} :
       IF LoopContinues(ex)
       THEN \E ad \in {Admit(pend, ex.ready, ex.time)} :
              \E sel \in {FcfsSelect(ex.running, ad.ready)} :
                Yield(ex, ad.pending, sel.running, sel.ready, 0, 0, slices,
                      NoDraw)
       ELSE FinalYield(ex, slices)

srtf_scheduler ==
  /\ policy = "SRTF"
  /\ Resumable
  /\ \E ex \in {Body}, pend \in {PendingNow} :
       IF LoopContinues(ex)
       THEN \E ad \in {Admit(pend, ex.ready, ex.time)} :
              \E sel \in {SrtfSelect(ex.running, ad.ready, ex.obj)} :
                Yield(ex, ad.pending, sel.running, sel.ready, 0, 0, slices,
                      NoDraw)
       ELSE FinalYield(ex, slices)

edf_scheduler ==
  /\ policy = "EDF"
  /\ Resumable
  /\ \E ex \in {Body}, pend \in {PendingNow} :
       IF LoopContinues(ex)
       THEN \E ad \in {Admit(pend, ex.ready, ex.time)} :
              \E sel \in {EdfSelect(ex.running, ad.ready)} :
                Yield(ex, ad.pending, sel.running, sel.ready, 0, 0, slices,
                      NoDraw)
       ELSE FinalYield(ex, slices)

\* ---- Round Robin, tick mode ----
\* a quantum test that lets a slice run one tick too long
RrExecuted_LateExpiry ==
  IF running_process = None
  THEN [obj |-> obj, completed |-> completed, running |-> None,
        ready |-> ready_queue, quantum_slice |-> quantum_slice,
        time |-> current_time + 1, ended |-> FALSE]
  ELSE LET o == Decrement(obj, running_process)
           qs == quantum_slice + 1
       IN IF o[running_process].remaining_burst_time = 0
          THEN [obj |-> o, completed |-> Append(completed, running_process),
                running |-> None, ready |-> ready_queue,
                quantum_slice |-> qs, time |-> current_time + 1,
                ended |-> TRUE]
          ELSE IF qs > time_quantum
          THEN [obj |-> o, completed |-> completed, running |-> None,
                ready |-> Append(ready_queue, running_process),
                quantum_slice |-> qs, time |-> current_time + 1,
                ended |-> TRUE]
          ELSE [obj |-> o, completed |-> completed,
                running |-> running_process, ready |-> ready_queue,
                quantum_slice |-> qs, time |-> current_time + 1,
                ended |-> FALSE]

\* remaining_burst_time -= 1; quantum_slice += 1; completion or quantum expiry
RrExecuted ==
  IF running_process = None
  THEN [obj |-> obj, completed |-> completed, running |-> None,
        ready |-> ready_queue, quantum_slice |-> quantum_slice,
        time |-> current_time + 1, ended |-> FALSE]
  ELSE LET o == Decrement(obj, running_process)
           qs == quantum_slice + 1
       IN IF o[running_process].remaining_burst_time = 0
          THEN [obj |-> o, completed |-> Append(completed, running_process),
                running |-> None, ready |-> ready_queue,
                quantum_slice |-> qs, time |-> current_time + 1,
                ended |-> TRUE]
          ELSE IF qs = time_quantum
          THEN [obj |-> o, completed |-> completed, running |-> None,
                ready |-> Append(ready_queue, running_process),
                quantum_slice |-> qs, time |-> current_time + 1,
                ended |-> TRUE]
          ELSE [obj |-> o, completed |-> completed,
                running |-> running_process, ready |-> ready_queue,
                quantum_slice |-> qs, time |-> current_time + 1,
                ended |-> FALSE]

RrBody == IF pc = "start" THEN Started @@ [ended |-> FALSE] ELSE RrExecuted

\* the slice that ended in this step, appended to the log of slices
SliceLog(ex) ==
  IF ex.ended
  THEN Append(slices, [pid |-> running_process, rem |-> dispatch_rem,
                       len |-> ex.quantum_slice])
  ELSE slices

round_robin_scheduler ==
  /\ policy = "RR"
  /\ Resumable
  /\ \E ex \in {RrBody}, pend \in {PendingNow} :
       IF LoopContinues(ex)
       THEN \E ad \in {Admit(pend, ex.ready, ex.time)} :
              IF ex.running = None /\ ad.ready # <<>>
              THEN Yield(ex, ad.pending, Head(ad.ready), Tail(ad.ready), 0,
                         ex.obj[Head(ad.ready)].remaining_burst_time,
                         SliceLog(ex), NoDraw)
              ELSE Yield(ex, ad.pending, ex.running, ad.ready,
                         ex.quantum_slice, dispatch_rem, SliceLog(ex),
                         NoDraw)
       ELSE FinalYield(ex, SliceLog(ex))

\* ---- Lottery ----
RECURSIVE TicketSum(_)
TicketSum(s) == IF s = <<>> THEN 0 ELSE P(Head(s)).tickets + TicketSum(Tail(s))

\* a walk that stops one ticket early
Winner_OneTicketEarly(ready, winning_ticket) ==
  LET hit == {i \in 1..Len(ready) :
                TicketSum(SubSeq(ready, 1, i)) >= winning_ticket - 1}
  IN CHOOSE i \in hit : \A j \in hit : i <= j

\* for process in ready_queue: ticket_sum += tickets; first with sum >= winning
Winner(ready, winning_ticket) ==
  LET hit == {i \in 1..Len(ready) :
                TicketSum(SubSeq(ready, 1, i)) >= winning_ticket}
  IN CHOOSE i \in hit : \A j \in hit : i <= j

\* random.randint(1, total_tickets)
Draws(run, ready) ==
  IF run = None /\ ready # <<>> /\ TicketSum(ready) > 0
  THEN 1..TicketSum(ready)
  ELSE {0}

LotterySelect(run, ready, winning_ticket) ==
  IF run = None /\ ready # <<>> /\ TicketSum(ready) > 0
  THEN LET i == Winner(ready, winning_ticket)
       IN [running |-> ready[i], ready |-> RemoveAt(ready, i)]
  ELSE [running |-> run, ready |-> ready]

lottery_scheduler ==
  /\ policy = "Lottery"
  /\ Resumable
  /\ \E ex \in {Body}, pend \in {PendingNow} :
       IF LoopContinues(ex)
       THEN \E ad \in {Admit(pend, ex.ready, ex.time)} :
              \E winning_ticket \in Draws(ex.running, ad.ready) :
                \E sel \in {LotterySelect(ex.running, ad.ready,
                                          winning_ticket)} :
                  Yield(ex, ad.pending, sel.running, sel.ready, 0, 0, slices,
                        IF winning_ticket = 0 THEN NoDraw
                        ELSE [queue |-> ad.ready,
                              winning_ticket |-> winning_ticket])
       ELSE FinalYield(ex, slices)

\* ---- the driver of a generator: VisualSimulator.run ----
\* the for loop of run() ends when the generator is exhausted
Stop ==
  /\ pc = "final"
  /\ pc' = "stopped"
  /\ UNCHANGED <<current_time, pending, ready_queue, running_process,
                 completed, quantum_slice, obj, busy, dispatch_rem, slices,
                 history, trace, draw, entries, workloadVars, jumpVars>>

\* ---- event-jump mode: main.py ----
\* schedule() is called once the tick-mode run of the workload is over
JumpRunnable ==
  /\ m_pc \in {"idle", "loop"}
  /\ pc \in {"stopped", "raised", "absent"}
  /\ Len(gantt_chart) <= Horizon + Len(processes)

Idle(from, to) == [from |-> from, to |-> to, who |-> None]
Ran(from, to, p) == [from |-> from, to |-> to, who |-> p]

\* completion_time, turnaround_time, waiting_time of a finished process
Metrics(o, p, done) ==
  [o EXCEPT ![p].completion_time = done,
            ![p].turnaround_time = done - P(p).arrival_time,
            ![p].waiting_time =
               (done - P(p).arrival_time) - P(p).burst_time]

\* the list a schedule() method walks: sorted when the method starts
SortedOnce == IF m_pc = "idle" THEN SortedByArrival ELSE m_processes
IndexNow == IF m_pc = "idle" THEN 1 ELSE m_process_idx

\* FCFSScheduler.schedule: one iteration of "for process in processes"
FCFSScheduler ==
  /\ policy = "FCFS"
  /\ JumpRunnable
  /\ \E order \in {SortedOnce}, idx \in {IndexNow} :
       IF idx <= Len(order)
       THEN \E p \in {order[idx]} :
              \E start \in {IF m_current_time < P(p).arrival_time
                            THEN P(p).arrival_time ELSE m_current_time} :
                \E done \in {start + P(p).burst_time} :
                  /\ m_pc' = "loop"
                  /\ m_processes' = order
                  /\ m_process_idx' = idx + 1
                  /\ gantt_chart' =
                       Append(IF m_current_time < start
                              THEN Append(gantt_chart,
                                          Idle(m_current_time, start))
                              ELSE gantt_chart,
                              Ran(start, done, p))
                  /\ m_obj' = Metrics([m_obj EXCEPT ![p].start_time = start],
                                      p, done)
                  /\ m_current_time' = done
                  /\ UNCHANGED m_result
       ELSE /\ m_pc' = "returned"
            /\ m_result' = order
            /\ UNCHANGED <<m_processes, m_process_idx, gantt_chart, m_obj,
                           m_current_time>>
  /\ UNCHANGED <<workloadVars, tickVars, slices, m_ready_queue,
                 m_completed_processes>>

RECURSIVE SelectSeq2(_, _)
\* [p for p in s if p.arrival_time <= t]
SelectSeq2(s, t) ==
  IF s = <<>> THEN <<>>
  ELSE IF P(Head(s)).arrival_time <= t
       THEN <<Head(s)>> \o SelectSeq2(Tail(s), t)
       ELSE SelectSeq2(Tail(s), t)

\* min(p.arrival_time for p in s)
MinArrival(s) ==
  CHOOSE m \in {P(s[i]).arrival_time : i \in 1..Len(s)} :
    \A i \in 1..Len(s) : m <= P(s[i]).arrival_time

\* list.remove(x): drops the first occurrence
Remove(s, x) ==
  RemoveAt(s, CHOOSE i \in 1..Len(s) :
                 s[i] = x /\ \A j \in 1..(i - 1) : s[j] # x)

\* SJFScheduler.schedule: one iteration of "while remaining_processes"
SJFScheduler ==
  /\ policy = "SJF"
  /\ JumpRunnable
  /\ \E remaining \in {SortedOnce} :
       IF remaining # <<>>
       THEN \E ready \in {SelectSeq2(remaining, m_current_time)} :
              IF ready = <<>>
              THEN \E next_arrival_time \in {MinArrival(remaining)} :
                     /\ gantt_chart' =
                          Append(gantt_chart,
                                 Idle(m_current_time, next_arrival_time))
                     /\ m_current_time' = next_arrival_time
                     /\ m_processes' = remaining
                     /\ m_ready_queue' = ready
                     /\ m_pc' = "loop"
                     /\ UNCHANGED <<m_obj, m_completed_processes, m_result>>
              ELSE \E sorted \in {StableSort(ready, BurstKey)} :
                     \E p \in {sorted[1]} :
                       \E done \in {m_current_time + P(p).burst_time} :
                         /\ m_ready_queue' = sorted
                         /\ m_obj' =
                              Metrics([m_obj EXCEPT
                                         ![p].start_time = m_current_time],
                                      p, done)
                         /\ gantt_chart' =
                              Append(gantt_chart,
                                     Ran(m_current_time, done, p))
                         /\ m_current_time' = done
                         /\ m_completed_processes' =
                              Append(m_completed_processes, p)
                         /\ m_processes' = Remove(remaining, p)
                         /\ m_pc' = "loop"
                         /\ UNCHANGED m_result
       ELSE /\ m_pc' = "returned"
            /\ m_result' = m_completed_processes
            /\ UNCHANGED <<m_processes, m_ready_queue, gantt_chart, m_obj,
                           m_current_time, m_completed_processes>>
  /\ UNCHANGED <<workloadVars, tickVars, slices, m_process_idx>>

\* while process_idx < len(processes) and arrival_time <= t: append, idx += 1
ArrivedFrom(order, idx, t) ==
  Cardinality({i \in idx..Len(order) :
                 \A j \in idx..i : P(order[j]).arrival_time <= t})

\* a slice that always takes the whole quantum
ExecutionTime_WholeQuantum(rem, q) == q

\* execution_time = min(process.remaining_burst_time, self.time_quantum)
ExecutionTime(rem, q) == Min2(rem, q)

PidKey == [p \in Pids |-> p]

\* the first admission loop of an iteration of RoundRobinScheduler.schedule
RrAdmitted(order, idx, ready, t) ==
  [idx |-> idx + ArrivedFrom(order, idx, t),
   ready |-> ready \o SubSeq(order, idx, idx + ArrivedFrom(order, idx, t) - 1)]

\* the slice of a dispatched process and the admission loop that follows it
RrSlice(order, ad, o, now, q) ==
  LET p == Head(ad.ready)
      rem == o[p].remaining_burst_time
      execution_time == ExecutionTime(rem, q)
      end == now + execution_time
      k == ArrivedFrom(order, ad.idx, end)
  IN [pid |-> p, rem |-> rem, start |-> now, end |-> end,
      left |-> rem - execution_time,
      idx |-> ad.idx + k,
      ready |-> Tail(ad.ready) \o SubSeq(order, ad.idx, ad.idx + k - 1)]

\* RoundRobinScheduler.schedule: one iteration of the while loop
RoundRobinScheduler ==
  /\ policy = "RR"
  /\ JumpRunnable
  /\ \E order \in {SortedOnce}, idx \in {IndexNow} :
       IF idx <= Len(order) \/ m_ready_queue # <<>>
       THEN \E ad \in {RrAdmitted(order, idx, m_ready_queue,
                                  m_current_time)} :
              /\ m_pc' = "loop"
              /\ m_processes' = order
              /\ UNCHANGED m_result
              /\ IF ad.ready = <<>>
                 THEN /\ IF ad.idx <= Len(order)
                         THEN /\ gantt_chart' =
                                   Append(gantt_chart,
                                          Idle(m_current_time,
                                               P(order[ad.idx]).arrival_time))
                              /\ m_current_time' =
                                   P(order[ad.idx]).arrival_time
                         ELSE UNCHANGED <<gantt_chart, m_current_time>>
                      /\ m_process_idx' = ad.idx
                      /\ m_ready_queue' = ad.ready
                      /\ UNCHANGED <<m_obj, m_completed_processes, slices>>
                 ELSE \E sl \in {RrSlice(order, ad, m_obj, m_current_time,
                                         time_quantum)} :
                        \E o \in {[m_obj EXCEPT
                                     ![sl.pid].start_time =
                                        IF @ = NotStarted
                                        THEN m_current_time ELSE @,
                                     ![sl.pid].remaining_burst_time =
                                        sl.left]} :
                          /\ m_current_time' = sl.end
                          /\ gantt_chart' =
                               Append(gantt_chart,
                                      Ran(sl.start, sl.end, sl.pid))
                          /\ slices' =
                               Append(slices,
                                      [pid |-> sl.pid, rem |-> sl.rem,
                                       len |-> sl.end - sl.start])
                          /\ m_process_idx' = sl.idx
                          /\ IF sl.left > 0
                             THEN /\ m_ready_queue' = Append(sl.ready, sl.pid)
                                  /\ m_obj' = o
                                  /\ UNCHANGED m_completed_processes
                             ELSE /\ m_ready_queue' = sl.ready
                                  /\ m_obj' = Metrics(o, sl.pid, sl.end)
                                  /\ m_completed_processes' =
                                       Append(m_completed_processes, sl.pid)
       ELSE /\ m_pc' = "returned"
            /\ m_result' = StableSort(m_completed_processes, PidKey)
            /\ UNCHANGED <<m_processes, m_process_idx, m_ready_queue,
                           gantt_chart, m_obj, m_current_time,
                           m_completed_processes, slices>>
  /\ UNCHANGED <<workloadVars, tickVars>>

\* ---- workloads ----
Attrs(pol) ==
  [arrival_time : 0..MaxArrival, burst_time : 1..MaxBurst,
   tickets : IF pol = "Lottery" THEN 1..MaxTickets ELSE {DefaultTickets},
   deadline : IF pol = "EDF" THEN 0..MaxDeadline ELSE {DefaultDeadline}]

\* the pids of the input list: ascending from 1, or descending from NumProcs
NextPids ==
  IF processes = <<>> THEN {1, NumProcs}
  ELSE IF processes[1].pid = 1
       THEN {processes[Len(processes)].pid + 1}
       ELSE {processes[Len(processes)].pid - 1}

\* neither the generator nor schedule() has run a step
NotStartedYet ==
  /\ pc \in {"start", "absent"}
  /\ m_pc \in {"idle", "absent"}

\* Process.__init__ (pid 0 stands for None and has no object)
NewProcess(burst_time) ==
  [start_time |-> NotStarted, completion_time |-> 0, turnaround_time |-> 0,
   waiting_time |-> 0, remaining_burst_time |-> burst_time]

\* One Process(**pd) of the list comprehension that builds the workload:
\* VisualSimulator.__init__ for the generators, __main__ of main.py for the
\* schedule() methods.  Process.__init__ checks none of its arguments.
Construct(p, a) ==
  /\ NotStartedYet
  /\ processes' =
       Append(processes,
              [pid |-> p, arrival_time |-> a.arrival_time,
               burst_time |-> a.burst_time, tickets |-> a.tickets,
               deadline |-> a.deadline])
  /\ obj' = (p :> NewProcess(a.burst_time)) @@ obj
  /\ m_obj' = (p :> NewProcess(a.burst_time)) @@ m_obj
  /\ busy' = (p :> 0) @@ busy
  /\ UNCHANGED <<policy, time_quantum, pc, current_time, pending, ready_queue,
                 running_process, completed, quantum_slice, dispatch_rem,
                 slices, history, trace, draw, entries, jumpVars_but_obj>>

\* a process of a valid workload
LoadProcess ==
  /\ Len(processes) < NumProcs
  /\ \E p \in NextPids, a \in Attrs(policy) : Construct(p, a)

\* The locals and objects before any step, for the workload procs.
Constructed(procs) ==
  /\ processes = procs
  /\ pc = (IF policy \in TickPolicies THEN "start" ELSE "absent")
  /\ current_time = 0
  /\ pending = <<>>
  /\ ready_queue = <<>>
  /\ running_process = None
  /\ completed = <<>>
  /\ quantum_slice = 0
  /\ obj = [i \in 1..Len(procs) |-> NewProcess(procs[i].burst_time)]
  /\ busy = [i \in 1..Len(procs) |-> 0]
  /\ dispatch_rem = 0
  /\ slices = <<>>
  /\ history = <<>>
  /\ trace = <<>>
  /\ draw = NoDraw
  /\ entries = <<>>
  /\ m_pc = (IF policy \in JumpPolicies THEN "idle" ELSE "absent")
  /\ m_current_time = 0
  /\ m_processes = <<>>
  /\ m_process_idx = 0
  /\ m_ready_queue = <<>>
  /\ m_completed_processes = <<>>
  /\ gantt_chart = <<>>
  /\ m_obj = [i \in 1..Len(procs) |-> NewProcess(procs[i].burst_time)]
  /\ m_result = <<>>

\* The scheduler is chosen and no process is loaded yet.
Init ==
  /\ policy \in Policies
  /\ time_quantum \in (IF policy = "RR" THEN 1..MaxQuantum ELSE {0})
  /\ Constructed(<<>>)

Next ==
  \/ LoadProcess
  \/ fcfs_scheduler
  \/ srtf_scheduler
  \/ edf_scheduler
  \/ round_robin_scheduler
  \/ lottery_scheduler
  \/ Stop
  \/ FCFSScheduler
  \/ SJFScheduler
  \/ RoundRobinScheduler

Spec == Init /\ [][Next]_vars

\* The generator is driven by the for loop of VisualSimulator.run and
\* schedule() runs to its return: every enabled step is eventually taken.
FairSpec == Spec /\ WF_vars(Next)

\* ---- unchecked input ----
\* Process.__init__ stores whatever it is given, and __main__ passes any
\* integer typed for the time quantum to round_robin_scheduler.
RawAttrs(pol) ==
  [arrival_time : (-1)..MaxArrival, burst_time : (-1)..MaxBurst,
   tickets : IF pol = "Lottery" THEN 0..MaxTickets ELSE {DefaultTickets},
   deadline : IF pol = "EDF" THEN 0..MaxDeadline ELSE {DefaultDeadline}]

LoadRawProcess ==
  /\ Len(processes) < MaxRawProcs
  /\ \E p \in NextPids, a \in RawAttrs(policy) : Construct(p, a)

RawInit ==
  /\ policy \in Policies
  /\ time_quantum \in (IF policy = "RR" THEN (-1)..MaxQuantum ELSE {0})
  /\ Constructed(<<>>)

RawNext ==
  \/ LoadRawProcess
  \/ fcfs_scheduler
  \/ srtf_scheduler
  \/ edf_scheduler
  \/ round_robin_scheduler
  \/ lottery_scheduler
  \/ Stop
  \/ FCFSScheduler
  \/ SJFScheduler
  \/ RoundRobinScheduler

RawSpec == RawInit /\ [][RawNext]_vars

\* ---- the four-process workloads ----
\* processes_data, Workload 1 of main.py (pid, arrival_time, burst_time);
\* the pids are 1..4 in input order
Workload1 ==
  LET Proc(p, a, b) ==
        [pid |-> p, arrival_time |-> a, burst_time |-> b,
         tickets |-> DefaultTickets, deadline |-> DefaultDeadline]
  IN <<Proc(1, 0, 7), Proc(2, 2, 4), Proc(3, 4, 1), Proc(4, 5, 4)>>

\* the same workload with P2 arriving at 0, together with P1
ScenarioWorkload == [Workload1 EXCEPT ![2].arrival_time = 0]

ScenarioInit ==
  /\ policy \in Policies
  /\ time_quantum \in (IF policy = "RR" THEN 1..MaxQuantum ELSE {0})
  /\ \E procs \in {Workload1, ScenarioWorkload} : Constructed(procs)

ScenarioNext ==
  \/ fcfs_scheduler
  \/ srtf_scheduler
  \/ edf_scheduler
  \/ round_robin_scheduler
  \/ lottery_scheduler
  \/ Stop
  \/ FCFSScheduler
  \/ SJFScheduler
  \/ RoundRobinScheduler

ScenarioSpec == ScenarioInit /\ [][ScenarioNext]_vars

\* ---- trace entries ----
TraceEntry == pc \in {"yield", "final"}
EntryRunning == IF pc = "final" THEN None ELSE running_process
EntryReady == IF pc = "final" THEN <<>> ELSE ready_queue
TickOver == pc \in {"final", "stopped"}
JumpOver == m_pc = "returned"

\* on a workload with positive bursts no run is cut at the Horizon
CutNowhere ==
  /\ pc \in {"start", "yield"} => current_time <= Horizon
  /\ m_pc \in {"idle", "loop"} => Len(gantt_chart) <= Horizon + Len(processes)

\* C1: in tick mode, under every policy and for every valid workload, the
\* driver loop eventually terminates, and then every process of the workload
\* is in completed exactly once.
C1_TickTerminates ==
  (pc = "start") ~>
     (/\ pc = "final"
      /\ Len(completed) = Len(processes)
      /\ \A p \in Pids : Count(completed, p) = 1)

C1_Witness ==
  /\ pc = "final"
  /\ Len(completed) = NumProcs
  /\ \A p \in Pids : Count(completed, p) = 1
  /\ policy = "Lottery"

\* C2: when a tick-mode run ends, the number of trace entries in which a
\* process is the running process equals its burst_time, for every process.
C2_BusyTicksEqualBurst ==
  pc = "final" => \A p \in Pids : busy[p] = P(p).burst_time

C2_Witness ==
  /\ pc = "final"
  /\ policy = "SRTF"
  /\ Len(processes) = NumProcs
  /\ \E p \in Pids : busy[p] = MaxBurst
  /\ \E p \in Pids : busy[p] = 1

\* C3: at every trace entry of a tick-mode run each process is in exactly
\* one of pending, ready, running, completed, and a completed process never
\* again is in pending, ready or running.
InPending(p) == p \in Range(pending)
InReady(p) == p \in Range(EntryReady)
InRunning(p) == p = EntryRunning
InCompleted(p) == p \in Range(completed)

ExactlyOneSet(p) ==
  /\ Cardinality({x \in {"pending", "ready", "running", "completed"} :
                    \/ x = "pending" /\ InPending(p)
                    \/ x = "ready" /\ InReady(p)
                    \/ x = "running" /\ InRunning(p)
                    \/ x = "completed" /\ InCompleted(p)}) = 1
  /\ Count(pending, p) + Count(EntryReady, p) + Count(completed, p) <= 1

C3_OneSetAndCompletedStays ==
  /\ [](TraceEntry => \A p \in Pids : ExactlyOneSet(p))
  /\ [][\A p \in Pids :
          InCompleted(p) =>
            /\ InCompleted(p)'
            /\ ~InPending(p)' /\ ~InReady(p)' /\ ~InRunning(p)']_vars

C3_Witness ==
  /\ pc = "yield"
  /\ policy = "EDF"
  /\ completed # <<>>
  /\ running_process # None
  /\ \E p \in Range(ready_queue) :
       obj[p].remaining_burst_time < P(p).burst_time

\* C4: once the run has finished (either driver), every process has
\* turnaround_time = completion_time - arrival_time,
\* waiting_time = turnaround_time - burst_time and waiting_time >= 0.
MetricsConsistent(o, p) ==
  /\ o[p].turnaround_time = o[p].completion_time - P(p).arrival_time
  /\ o[p].waiting_time = o[p].turnaround_time - P(p).burst_time
  /\ o[p].waiting_time >= 0

C4_MetricsOfFinishedRun ==
  /\ TickOver => \A p \in Pids : MetricsConsistent(obj, p)
  /\ JumpOver => \A p \in Pids : MetricsConsistent(m_obj, p)

\* C5: for the same workload the tick-mode driver and the event-jump driver
\* of the same policy (FCFS, Round Robin) give every process the same
\* completion, turnaround and waiting time.
C5_DriversAgree ==
  (TickOver /\ JumpOver) =>
     \A p \in Pids :
       /\ obj[p].completion_time = m_obj[p].completion_time
       /\ obj[p].turnaround_time = m_obj[p].turnaround_time
       /\ obj[p].waiting_time = m_obj[p].waiting_time

\* C6: every process in the completed set, and every process returned by an
\* event-jump scheduler, has remaining_burst_time = 0.
C6_CompletedHaveNoRemainingBurst ==
  /\ \A p \in Range(completed) : obj[p].remaining_burst_time = 0
  /\ \A p \in Range(m_completed_processes) : m_obj[p].remaining_burst_time = 0
  /\ JumpOver => \A p \in Range(m_result) : m_obj[p].remaining_burst_time = 0

\* ---- SRTF and EDF ----
KeyPolicy == policy \in {"SRTF", "EDF"}
Key == IF policy = "SRTF" THEN RemainingKey(obj) ELSE DeadlineKey

\* the running process of the last trace entry is back in the ready set
Preempted ==
  /\ pc = "yield" /\ pc' = "yield"
  /\ running_process # None
  /\ running_process' # running_process
  /\ running_process \in Range(ready_queue')

\* C7: under SRTF and EDF a running process is preempted at a tick only if
\* the process that takes the CPU has a strictly smaller key (remaining time
\* for SRTF, deadline for EDF); on equal keys the running process stays.
C7_PreemptOnlyOnStrictlySmallerKey ==
  [][(KeyPolicy /\ Preempted) =>
       Key'[running_process'] < Key'[running_process]]_vars

C7_Witness ==
  /\ policy = "SRTF"
  /\ pc = "yield"
  /\ running_process # None
  /\ \E p \in Range(ready_queue) :
       /\ obj[p].remaining_burst_time < P(p).burst_time
       /\ obj[running_process].remaining_burst_time
            < obj[p].remaining_burst_time

\* C8: at every trace entry of an SRTF (EDF) run with a running process,
\* its remaining_burst_time (deadline) is at most that of every ready process.
C8_RunningHasMinimumKey ==
  (KeyPolicy /\ pc = "yield" /\ running_process # None) =>
     \A r \in Range(ready_queue) : Key[running_process] <= Key[r]

C8_Witness ==
  /\ policy = "EDF"
  /\ pc = "yield"
  /\ running_process # None
  /\ \E r \in Range(ready_queue) :
       P(running_process).deadline < P(r).deadline
  /\ \E r \in Range(ready_queue) :
       P(running_process).deadline = P(r).deadline

\* C9: under SRTF and EDF, when a process is promoted from the ready set and
\* several ready processes tie on the minimum key, the promoted one is the
\* tied process with the earliest arrival_time and, among those, the lowest
\* pid.
Promoted ==
  /\ pc' = "yield"
  /\ running_process' # None
  /\ running_process' # running_process

\* the ready processes the choice was made among
Candidates ==
  (Range(ready_queue') \ {running_process}) \cup {running_process'}

Earlier(p, q) ==
  \/ P(p).arrival_time < P(q).arrival_time
  \/ P(p).arrival_time = P(q).arrival_time /\ p <= q

C9_TiesByArrivalThenPid ==
  [][(KeyPolicy /\ Promoted) =>
       \A c \in Candidates :
         Key'[c] = Key'[running_process'] => Earlier(running_process', c)]_vars

\* C10: under Round Robin, in both drivers, every dispatch runs the process
\* for exactly min(remaining_burst_time at dispatch, time_quantum) time
\* units; no execution slice exceeds time_quantum.
C10_SliceIsMinOfRemainingAndQuantum ==
  policy = "RR" =>
    /\ \A i \in 1..Len(slices) :
         /\ slices[i].len = Min2(slices[i].rem, time_quantum)
         /\ slices[i].len <= time_quantum
    /\ (pc = "yield" /\ running_process # None) =>
         /\ quantum_slice < time_quantum
         /\ quantum_slice < dispatch_rem

C10_Witness ==
  /\ policy = "RR"
  /\ JumpOver
  /\ \E i \in 1..Len(slices) :
       slices[i].len = time_quantum /\ slices[i].rem > time_quantum
  /\ \E i \in 1..Len(slices) :
       slices[i].len < time_quantum
  /\ Len(slices) > 2 * NumProcs

\* ---- FCFS: the schedule fixed by the stably sorted workload ----
PlaceIn(s, p) == CHOOSE i \in 1..Len(s) : s[i] = p
FcfsOrder == StableSort(InputOrder, ArrivalKey)

RECURSIVE FcfsStart(_)
FcfsStart(i) ==
  LET p == FcfsOrder[i]
  IN IF i = 1 THEN P(p).arrival_time
     ELSE LET free == FcfsStart(i - 1) + P(FcfsOrder[i - 1]).burst_time
          IN IF free < P(p).arrival_time THEN P(p).arrival_time ELSE free

FcfsOccupant(t) ==
  LET hit == {i \in 1..Len(FcfsOrder) :
                /\ FcfsStart(i) <= t
                /\ t < FcfsStart(i) + P(FcfsOrder[i]).burst_time}
  IN IF hit = {} THEN None ELSE FcfsOrder[CHOOSE i \in hit : TRUE]

ArrivalThenInputOrder(s) ==
  \A i, j \in 1..Len(s) :
    i < j =>
      /\ P(s[i]).arrival_time <= P(s[j]).arrival_time
      /\ P(s[i]).arrival_time = P(s[j]).arrival_time
           => PlaceIn(InputOrder, s[i]) < PlaceIn(InputOrder, s[j])

\* C11: under FCFS both drivers dispatch in non-decreasing arrival_time
\* order, equal arrivals in input order, and the schedule (who holds the CPU
\* at each tick; start and completion time of each process) is the one
\* fixed by the stably sorted workload alone, so input orders with the same
\* stable sort give the same schedule.
C11_FcfsScheduleOfSortedWorkload ==
  policy = "FCFS" =>
    /\ ArrivalThenInputOrder(completed)
    /\ pc = "yield" => running_process = FcfsOccupant(current_time)
    /\ pc = "final" => completed = FcfsOrder
    /\ \A i \in 1..Len(gantt_chart) :
         gantt_chart[i].who # None =>
           /\ gantt_chart[i].from = FcfsStart(PlaceIn(FcfsOrder,
                                                      gantt_chart[i].who))
           /\ gantt_chart[i].to =
                gantt_chart[i].from + P(gantt_chart[i].who).burst_time
    /\ JumpOver =>
         /\ m_result = FcfsOrder
         /\ \A i \in 1..Len(FcfsOrder) :
              m_obj[FcfsOrder[i]].start_time = FcfsStart(i)

C11_Witness ==
  /\ policy = "FCFS"
  /\ TickOver
  /\ JumpOver
  /\ Len(processes) = NumProcs
  /\ FcfsOrder # InputOrder
  /\ \E i \in 1..(NumProcs - 1) :
       /\ P(FcfsOrder[i]).arrival_time = P(FcfsOrder[i + 1]).arrival_time
       /\ FcfsOrder[i] > FcfsOrder[i + 1]
  /\ \E i \in 1..Len(gantt_chart) : gantt_chart[i].who = None

\* ---- SJF ----
\* a step of SJFScheduler.schedule that dispatches a process
SjfDispatched ==
  /\ policy = "SJF"
  /\ Len(m_completed_processes') = Len(m_completed_processes) + 1

SjfChosen == m_completed_processes'[Len(m_completed_processes')]

\* the not-yet-run processes that had arrived when the CPU became free
SjfCandidates ==
  {c \in Pids \ Range(m_completed_processes) :
     P(c).arrival_time <= m_current_time}

\* C12: each time the CPU becomes free SJFScheduler dispatches, among the
\* not-yet-run processes that have arrived, the one with minimum burst_time,
\* ties broken by earliest arrival_time and then lowest pid, and runs it for
\* its whole burst_time.
C12_SjfPicksShortestTiesByArrivalThenPid ==
  [][SjfDispatched =>
       /\ SjfChosen \in SjfCandidates
       /\ \A c \in SjfCandidates :
            /\ P(SjfChosen).burst_time <= P(c).burst_time
            /\ P(SjfChosen).burst_time = P(c).burst_time
                 => Earlier(SjfChosen, c)
       /\ m_obj'[SjfChosen].start_time = m_current_time
       /\ m_current_time' = m_current_time + P(SjfChosen).burst_time
       /\ m_obj'[SjfChosen].completion_time = m_current_time']_vars

\* ---- Lottery ----
\* tickets held by the first i processes of q
Cumulative(q, i) == TicketSum(SubSeq(q, 1, i))

\* the place in q whose span of tickets holds draw d
PlaceOfTicket(q, d) ==
  CHOOSE i \in 1..Len(q) : Cumulative(q, i - 1) < d /\ d <= Cumulative(q, i)

Drawn == policy = "Lottery" /\ pc = "yield" /\ draw # NoDraw

\* C13: under Lottery, on an empty CPU with a ready queue of positive total
\* tickets, for every draw d in 1..total_tickets the dispatched process is
\* the first one in queue order whose cumulative ticket count is >= d; of
\* the total_tickets possible draws exactly tickets_i dispatch process i,
\* and a draw always dispatches someone.
C13_LotteryDispatchByCumulativeTickets ==
  /\ Drawn =>
       LET q == draw.queue
           d == draw.winning_ticket
           total == TicketSum(q)
       IN /\ total > 0
          /\ d \in 1..total
          /\ running_process = q[PlaceOfTicket(q, d)]
          /\ ready_queue = RemoveAt(q, PlaceOfTicket(q, d))
          /\ \A j \in 1..(PlaceOfTicket(q, d) - 1) : Cumulative(q, j) < d
          /\ \A i \in 1..Len(q) :
               Cardinality({e \in 1..total : Winner(q, e) = i})
                 = P(q[i]).tickets
  /\ (policy = "Lottery" /\ pc = "yield" /\ running_process = None)
       => ready_queue = <<>>

C13_Witness ==
  /\ Drawn
  /\ Len(draw.queue) = NumProcs
  /\ running_process = draw.queue[NumProcs]
  /\ draw.winning_ticket = TicketSum(draw.queue)
  /\ \E i, j \in 1..NumProcs :
       P(draw.queue[i]).tickets # P(draw.queue[j]).tickets

\* ---- ready admission ----
\* the processes a tick-mode step took from pending, in the order taken
TickAdmitted == SubSeq(PendingNow, 1, Len(PendingNow) - Len(pending'))

\* the processes a step of RoundRobinScheduler.schedule took from the sorted
\* list, in the order taken
JumpAdmitted == SubSeq(m_processes', IndexNow, m_process_idx' - 1)

ByArrivalThenPid(s) == \A i, j \in 1..Len(s) : i < j => Earlier(s[i], s[j])

KeepsOrder(s, queue) ==
  \A i, j \in 1..Len(s) :
    (i < j /\ s[i] \in Range(queue) /\ s[j] \in Range(queue))
      => PlaceIn(queue, s[i]) < PlaceIn(queue, s[j])

\* C14: admission at time t moves every pending process with
\* arrival_time <= t into the ready set, and the processes admitted at the
\* same step enter the queue in arrival_time order, equal arrival times
\* lower pid first, whatever the input order.
C14_AdmissionByArrivalThenPid ==
  [][/\ (policy \in TickPolicies /\ pc' = "yield") =>
          /\ \A p \in Range(pending') : P(p).arrival_time > current_time'
          /\ \A p \in Range(TickAdmitted) :
               /\ P(p).arrival_time <= current_time'
               /\ p \in Range(ready_queue') \cup {running_process'}
          /\ policy \in {"FCFS", "RR"} => KeepsOrder(TickAdmitted, ready_queue')
          /\ ByArrivalThenPid(TickAdmitted)
     /\ (policy = "RR" /\ m_pc' = "loop") =>
          /\ \A i \in m_process_idx'..Len(m_processes') :
               P(m_processes'[i]).arrival_time
                 > (IF Len(slices') > Len(slices)
                    THEN m_current_time' ELSE m_current_time)
          /\ \A p \in Range(JumpAdmitted) :
               /\ P(p).arrival_time <= m_current_time'
               /\ p \in Range(m_ready_queue')
                        \cup Range(m_completed_processes')
          /\ ByArrivalThenPid(JumpAdmitted)]_vars

\* the same with equal arrival times in input order
AdmissionByArrivalThenInputOrder ==
  [][/\ (policy \in TickPolicies /\ pc' = "yield") =>
          ArrivalThenInputOrder(TickAdmitted)
     /\ (policy = "RR" /\ m_pc' = "loop") =>
          ArrivalThenInputOrder(JumpAdmitted)]_vars

\* ---- unchecked input ----
InvalidProcess(pr) ==
  \/ pr.burst_time <= 0
  \/ pr.arrival_time < 0
  \/ policy = "Lottery" /\ pr.tickets <= 0

InvalidWorkload == \E i \in 1..Len(processes) : InvalidProcess(processes[i])

\* C15: constructing a Process with burst_time <= 0, arrival_time < 0 or
\* (Lottery) tickets <= 0 fails, so no simulation step is ever taken on a
\* workload holding such a process.
C15_InvalidWorkloadNeverRuns == InvalidWorkload => NotStartedYet

InvalidConfiguration ==
  \/ policy = "RR" /\ time_quantum <= 0
  \/ processes = <<>>

\* C16: a Round Robin time_quantum <= 0 and an empty workload are rejected
\* before any simulation step: no generator and no schedule() takes a step
\* under either.
C16_InvalidConfigurationNeverRuns == InvalidConfiguration => NotStartedYet

NonPositiveQuantumNeverRuns ==
  (policy = "RR" /\ time_quantum <= 0 /\ processes # <<>>) => NotStartedYet

\* ---- the four-process scenarios ----
\* who holds the CPU at tick t when the CPU intervals are iv
OccupantOf(iv, t) ==
  LET hit == {i \in 1..Len(iv) : iv[i].from <= t /\ t < iv[i].to}
  IN IF hit = {} THEN None ELSE iv[CHOOSE i \in hit : TRUE].who

FcfsIntervals == <<Ran(0, 7, 1), Ran(7, 11, 2), Ran(11, 12, 3), Ran(12, 16, 4)>>

\* C17: for the workload (1,0,7), (2,0,4), (3,4,1), (4,5,4) under FCFS the
\* CPU intervals are P1 0-7, P2 7-11, P3 11-12, P4 12-16 and the waiting
\* times of P1..P4 are 0, 7, 7, 7.
C17_FcfsScenario ==
  (policy = "FCFS" /\ processes = ScenarioWorkload) =>
    /\ pc = "yield" =>
         /\ current_time < 16
         /\ running_process = OccupantOf(FcfsIntervals, current_time)
    /\ pc = "final" =>
         /\ current_time = 16
         /\ completed = <<1, 2, 3, 4>>
         /\ history = <<CpuState(1), CpuState(2), CpuState(3), CpuState(4),
                        CpuState(None)>>
    /\ m_pc = "loop" =>
         gantt_chart = SubSeq(FcfsIntervals, 1, Len(gantt_chart))
    /\ JumpOver =>
         /\ gantt_chart = FcfsIntervals
         /\ m_obj[1].waiting_time = 0
         /\ m_obj[2].waiting_time = 7
         /\ m_obj[3].waiting_time = 7
         /\ m_obj[4].waiting_time = 7

C17_Witness ==
  /\ policy = "FCFS"
  /\ processes = ScenarioWorkload
  /\ pc = "stopped"
  /\ JumpOver
  /\ Len(gantt_chart) = 4

SrtfIntervals == <<Ran(0, 4, 2), Ran(4, 5, 3), Ran(5, 9, 4), Ran(9, 16, 1)>>

SrtfIntervals1 ==
  <<Ran(0, 2, 1), Ran(2, 4, 2), Ran(4, 5, 3), Ran(5, 7, 2), Ran(7, 11, 4),
    Ran(11, 16, 1)>>

\* a process waiting in the ready queue after it has held the CPU
PreemptedNow(p) ==
  /\ p \in Range(ready_queue)
  /\ obj[p].remaining_burst_time < P(p).burst_time

\* C18: for the workload (1,0,7), (2,0,4), (3,4,1), (4,5,4) under SRTF, P2
\* (same arrival as P1, shorter burst) gets the CPU at t=0 before P1 has
\* run, P3 is dispatched at t=4 on the CPU P2 has just left, and nothing is
\* ever preempted: P2 0-4, P3 4-5, P4 5-9, P1 9-16.  With P2 arriving at 2
\* (Workload 1 of main.py) P1 is preempted by P2 at t=2 and P2 by P3 at
\* t=4: P1 0-2, P2 2-4, P3 4-5, P2 5-7, P4 7-11, P1 11-16.
C18_SrtfScenario ==
  policy = "SRTF" =>
    /\ (processes = ScenarioWorkload /\ pc = "yield") =>
         /\ running_process = OccupantOf(SrtfIntervals, current_time)
         /\ \A p \in Pids : ~PreemptedNow(p)
         /\ current_time = 4 => completed = <<2>>
    /\ (processes = Workload1 /\ pc = "yield") =>
         /\ running_process = OccupantOf(SrtfIntervals1, current_time)
         /\ current_time \in 2..10 <=> PreemptedNow(1)
         /\ current_time = 4 <=> PreemptedNow(2)
    /\ pc = "final" => current_time = 16

C18_Witness ==
  /\ policy = "SRTF"
  /\ processes = ScenarioWorkload
  /\ pc = "yield"
  /\ current_time = 4
  /\ running_process = 3
  /\ ready_queue = <<1>>
  /\ obj[1].remaining_burst_time = 7

\* C18 as stated: for that workload under SRTF, P1 is preempted when P2
\* arrives, so whenever P2 holds the CPU with P1 unfinished, P1 has already
\* run and waits preempted; and P2 is still running when P3 arrives at t=4.
C18_AsStated ==
  (policy = "SRTF" /\ processes = ScenarioWorkload /\ pc = "yield") =>
    /\ (running_process = 2 /\ 1 \notin Range(completed)) => PreemptedNow(1)
    /\ current_time = 4 => PreemptedNow(2)

\* ---- the Gantt history ----
\* entry i of the trace starts a run of one occupant
StartsRun(i) == i = 1 \/ trace[i] # trace[i - 1]

\* the number of runs among the first i entries
RunsUpTo(i) == Cardinality({j \in 1..i : StartsRun(j)})

\* C19: the history recorded by draw_state is the run-length encoding of
\* the CPU-occupant field of the trace: one label per maximal run of equal
\* occupants, in trace order, so no two adjacent labels are equal.
C19_HistoryIsRunLengthEncoding ==
  (policy \in TickPolicies /\ ~DrawRaises) =>
    /\ Len(history) = RunsUpTo(Len(trace))
    /\ \A i \in 1..Len(trace) :
         StartsRun(i) => history[RunsUpTo(i)] = CpuState(trace[i])
    /\ \A i \in 1..(Len(history) - 1) : history[i] # history[i + 1]

C19_Witness ==
  /\ policy = "SRTF"
  /\ pc = "final"
  /\ Len(trace) > Len(history) + 1
  /\ \E i, j \in 1..Len(history) :
       /\ i + 1 < j
       /\ history[i] = history[j]
       /\ history[i] # CpuState(None)
  /\ history[Len(history)] = CpuState(None)

\* ---- remaining burst time ----
RemainingInRange(o) ==
  \A p \in Pids :
    /\ 0 <= o[p].remaining_burst_time
    /\ o[p].remaining_burst_time <= P(p).burst_time

\* C20: for every policy and driver, on workloads with burst_time >= 1 (and
\* time_quantum >= 1 for Round Robin), 0 <= remaining_burst_time <= burst_time
\* holds for every process in every reachable state, and
\* remaining_burst_time never increases.
C20_RemainingBurstBoundedAndNonIncreasing ==
  /\ [](RemainingInRange(obj) /\ RemainingInRange(m_obj))
  /\ [][\A p \in Pids :
          /\ obj'[p].remaining_burst_time <= obj[p].remaining_burst_time
          /\ m_obj'[p].remaining_burst_time
               <= m_obj[p].remaining_burst_time]_vars

C20_Witness ==
  /\ policy = "RR"
  /\ pc = "stopped"
  /\ m_pc = "loop"
  /\ \A p \in Pids : obj[p].remaining_burst_time = 0
  /\ \E p \in Pids :
       /\ 0 < m_obj[p].remaining_burst_time
       /\ m_obj[p].remaining_burst_time < P(p).burst_time
  /\ \E p \in Pids : m_obj[p].remaining_burst_time = 0

\* ---- completion in tick mode ----
\* the running process of this trace entry finishes in the step that follows
CompletesNow(p) ==
  /\ policy \in TickPolicies
  /\ pc = "yield"
  /\ p = running_process
  /\ obj[p].remaining_burst_time = 1
  /\ pc' \in {"yield", "final"}

\* what does hold of that step: the process moves to completed and leaves
\* the CPU
CompletionMovesToCompleted ==
  [][\A p \in Pids :
       CompletesNow(p) =>
         /\ obj'[p].remaining_burst_time = 0
         /\ completed' = Append(completed, p)
         /\ Executed.running = None
         /\ running_process' # p]_vars

\* C21: in tick mode, when the running process's remaining_burst_time
\* reaches 0 during the step at time t, its completion_time is set to t + 1
\* at that step and never set again; the process moves to completed and the
\* CPU is left empty.
C21_CompletionTimeSetOnceAtTickPlusOne ==
  [][\A p \in Pids :
       /\ CompletesNow(p) =>
            /\ obj'[p].completion_time = current_time + 1
            /\ completed' = Append(completed, p)
            /\ running_process' # p
       /\ (policy \in TickPolicies /\ ~CompletesNow(p)) =>
            obj'[p].completion_time = obj[p].completion_time]_vars

\* ---- start_time ----
\* a generator step gives the CPU to a process that has never held it
TickFirstDispatch(p) ==
  /\ policy \in TickPolicies
  /\ pc' = "yield"
  /\ running_process' = p
  /\ busy[p] = 0

\* the slice a step of schedule() has logged, if it logged one
JumpDispatched ==
  /\ Len(gantt_chart') > Len(gantt_chart)
  /\ gantt_chart'[Len(gantt_chart')].who # None

LoggedSlice == gantt_chart'[Len(gantt_chart')]

HasRun(p) == \E i \in 1..Len(gantt_chart) : gantt_chart[i].who = p

JumpFirstDispatch(p) ==
  /\ JumpDispatched
  /\ LoggedSlice.who = p
  /\ ~HasRun(p)

\* a process waiting in a ready queue keeps what it has left, and no step
\* overwrites a start_time already set
KeepsFields(o, on, p) ==
  /\ on[p].remaining_burst_time = o[p].remaining_burst_time
  /\ on[p].start_time = o[p].start_time

WaitingKeepsFields ==
  [][\A p \in Pids :
       /\ (pc = "yield" /\ p \in Range(ready_queue)) => KeepsFields(obj, obj', p)
       /\ (pc = "yield" /\ pc' = "yield" /\ p = running_process
           /\ p \in Range(ready_queue')) =>
            /\ obj'[p].remaining_burst_time = obj[p].remaining_burst_time - 1
            /\ obj'[p].start_time = obj[p].start_time
       /\ (m_pc = "loop" /\ p \in Range(m_ready_queue)
           /\ ~(JumpDispatched /\ LoggedSlice.who = p)) =>
            KeepsFields(m_obj, m_obj', p)]_vars

\* start_time in the schedule() methods
StartTimeSetOnceInEventJump ==
  [][\A p \in Pids :
       /\ ~HasRun(p) => m_obj[p].start_time = NotStarted
       /\ JumpFirstDispatch(p) => m_obj'[p].start_time = LoggedSlice.from
       /\ HasRun(p) => m_obj'[p].start_time = m_obj[p].start_time]_vars

\* C22: in every driver a process's start_time is -1 until its first
\* dispatch, is set at that first dispatch to the current time, and is never
\* changed afterwards; a preempted process keeps its remaining_burst_time
\* and its start_time while it waits in the ready set and when it is
\* dispatched again.
C22_StartTimeSetOnceAtFirstDispatch ==
  [][\A p \in Pids :
       /\ busy[p] = 0 => obj[p].start_time = NotStarted
       /\ TickFirstDispatch(p) => obj'[p].start_time = current_time'
       /\ busy[p] > 0 => obj'[p].start_time = obj[p].start_time
       /\ ~HasRun(p) => m_obj[p].start_time = NotStarted
       /\ JumpFirstDispatch(p) => m_obj'[p].start_time = LoggedSlice.from
       /\ HasRun(p) => m_obj'[p].start_time = m_obj[p].start_time
       /\ (pc = "yield" /\ p \in Range(ready_queue)) => KeepsFields(obj, obj', p)
       /\ (m_pc = "loop" /\ p \in Range(m_ready_queue)
           /\ ~(JumpDispatched /\ LoggedSlice.who = p)) =>
            KeepsFields(m_obj, m_obj', p)]_vars

\* ---- Round Robin: quantum expiry and arrivals ----
\* the running process uses up its quantum in the step that follows, with
\* burst time left
QuantumExpires ==
  /\ policy = "RR"
  /\ pc = "yield" /\ pc' = "yield"
  /\ running_process # None
  /\ quantum_slice + 1 = time_quantum
  /\ obj[running_process].remaining_burst_time > 1

\* the ready queue of a step after its admission loop, before its dispatch
QueueAfterAdmission ==
  IF running_process' # None /\ quantum_slice' = 0
  THEN <<running_process'>> \o ready_queue'
  ELSE ready_queue'

\* C23: in tick-mode Round Robin quantum expiry is checked after the
\* decrement of step t and before the admission of step t+1: a process whose
\* quantum expires at the end of step t without completing is in the ready
\* queue ahead of every process that arrives at t + 1.
C23_ExpiredQuantumQueuesAheadOfArrivals ==
  [][QuantumExpires =>
       /\ obj'[running_process].remaining_burst_time
            = obj[running_process].remaining_burst_time - 1
       /\ running_process \in Range(QueueAfterAdmission)
       /\ \A a \in Range(TickAdmitted) :
            /\ P(a).arrival_time = current_time + 1
            /\ PlaceIn(QueueAfterAdmission, running_process)
                 < PlaceIn(QueueAfterAdmission, a)]_vars

C23_Witness ==
  /\ policy = "RR"
  /\ pc = "yield"
  /\ running_process # None
  /\ quantum_slice = 0
  /\ slices # <<>>
  /\ slices[Len(slices)].rem > slices[Len(slices)].len
  /\ slices[Len(slices)].pid \in Range(ready_queue)
  /\ \E a \in Range(ready_queue) :
       /\ P(a).arrival_time = current_time
       /\ PlaceIn(ready_queue, slices[Len(slices)].pid)
            < PlaceIn(ready_queue, a)

\* ---- FCFS and Lottery: no preemption ----
NonPreemptive == policy \in {"FCFS", "Lottery"}

\* C24: under tick-mode FCFS and Lottery a dispatched process is the
\* running process of every consecutive trace entry until it completes: the
\* CPU passes from a process to none only at its completion and to a process
\* only from none, and a process that has run is never back in the ready
\* set.
C24_NoPreemptionUnderFcfsAndLottery ==
  /\ []((NonPreemptive /\ pc # "absent") =>
          \A p \in Pids :
            busy[p] > 0 => p = running_process \/ p \in Range(completed))
  /\ [][(NonPreemptive /\ pc = "yield" /\ running_process # None) =>
          IF obj[running_process].remaining_burst_time > 1
          THEN /\ running_process' = running_process
               /\ Executed.running = running_process
               /\ running_process \notin Range(completed')
          ELSE /\ Executed.running = None
               /\ running_process \in Range(completed')
               /\ running_process' # running_process]_vars

C24_Witness ==
  /\ policy = "Lottery"
  /\ pc = "yield"
  /\ running_process # None
  /\ busy[running_process] = MaxBurst
  /\ ready_queue # <<>>
  /\ completed # <<>>
  /\ \E r \in Range(ready_queue) :
       P(r).arrival_time < P(running_process).arrival_time

\* ---- trace entries held by their consumer ----
\* C25: a trace entry is never mutated after emission: the ready list and
\* the completed list of every entry yielded so far still hold what they
\* held when the entry was yielded.
C25_EntriesKeepTheirSnapshots ==
  \A i \in 1..Len(entries) :
    /\ Snapshot(entries[i]).ready = entries[i].ready
    /\ Snapshot(entries[i]).completed = entries[i].completed

\* what does hold: the ready list of a Round Robin entry, a copy
RoundRobinReadyIsCopied ==
  policy = "RR" =>
    \A i \in 1..Len(entries) : Snapshot(entries[i]).ready = entries[i].ready

\* ---- work conservation ----
\* the processes that have arrived by now and are not finished
Runnable ==
  {p \in Pids : P(p).arrival_time <= current_time /\ p \notin Range(completed)}

\* C26: the tick-mode schedulers are work-conserving: at every trace entry
\* at time t, if some process has arrival_time <= t and is not completed
\* then one holds the CPU (on valid workloads the CPU is idle only when no
\* arrived, unfinished process exists), and no process with
\* arrival_time <= t is still pending.
C26_WorkConserving ==
  (policy \in TickPolicies /\ TraceEntry) =>
    /\ Runnable # {} => EntryRunning \in Runnable
    /\ Runnable = {} => EntryRunning = None
    /\ \A p \in Range(pending) : P(p).arrival_time > current_time
    /\ Runnable \ {EntryRunning} = Range(EntryReady)

C26_Witness ==
  /\ policy = "EDF"
  /\ pc = "yield"
  /\ CpuState(None) \in Range(history)
  /\ running_process # None
  /\ P(running_process).arrival_time = current_time
  /\ ready_queue # <<>>
  /\ pending # <<>>

====
